---------------------------- MODULE Spec2Model ----------------------------
(***************************************************************************)
(* Model of app.py, the Streamlit script of the economic indicators        *)
(* dashboard.  Streamlit runs the whole script top to bottom for every     *)
(* page load of every viewer session; the widget calls return the state    *)
(* of the controls of that session.                                       *)
(*                                                                         *)
(* Numbers.  Every number of the script is a decimal literal with at most  *)
(* two decimals.  The model keeps a number x as the integer 100 * x        *)
(* ("hundredths"); the formatting operators below turn hundredths into     *)
(* the text Python's format specifications produce.                        *)
(* Text is a TLA+ string; bytes are sequences of integers 0..255.          *)
(***************************************************************************)
EXTENDS Integers, Sequences, FiniteSets, TLC

VARIABLES
  ctrl,     \* ctrl[v]: what the widgets of viewer v's session return in the current run
  pc,       \* pc[v]: position of viewer v's script run
  data,     \* data[v]: the script's globals key_metrics, time_series, pmi_data, forecast_data
  out,      \* out[v]: the elements rendered by the current run, in order
  arg,      \* input of the function under test (function-level specification)
  result    \* its output

vars == <<ctrl, pc, data, out, arg, result>>

Viewers == {"v1", "v2"}

-----------------------------------------------------------------------------
(* Text and number formatting *)

Abs(n) == IF n < 0 THEN -n ELSE n

CharAt(s, i) == SubSeq(s, i, i)

Digit(d) == CharAt("0123456789", d + 1)

RECURSIVE Digits(_)
\* str(n) of a natural number n
Digits(n) == IF n < 10 THEN Digit(n) ELSE Digits(n \div 10) \o Digit(n % 10)

Sign(h) == IF h < 0 THEN "-" ELSE ""

\* f"{x:.2f}" of x = h / 100
Fixed2(h) ==
  Sign(h) \o Digits(Abs(h) \div 100) \o "." \o Digit((Abs(h) \div 10) % 10)
          \o Digit(Abs(h) % 10)

\* Tenths of |h| / 100 rounded to nearest.  The hundredths digit is 5 for no
\* number of the script's tables and for none drawn as a test input; that
\* branch (where Python rounds the binary double, not the decimal) is
\* written as round-half-even.
RoundTenths(a) ==
  LET t == a \div 10
      r == a % 10
  IN  IF r > 5 \/ (r = 5 /\ t % 2 = 1) THEN t + 1 ELSE t

\* f"{x:.1f}" of x = h / 100
Fixed1(h) ==
  Sign(h) \o Digits(RoundTenths(Abs(h)) \div 10) \o "."
          \o Digit(RoundTenths(Abs(h)) % 10)

\* repr of the float h / 100, as pandas writes a float64 cell: the shortest
\* decimal, with at least one digit after the point
ReprFloat(h) ==
  LET a == Abs(h)
  IN  Sign(h) \o Digits(a \div 100) \o "." \o
      (IF a % 100 = 0 THEN "0"
       ELSE IF a % 10 = 0 THEN Digit((a \div 10) % 10)
       ELSE Digit((a \div 10) % 10) \o Digit(a % 10))

\* str of the integer h / 100, as pandas writes an int64 cell
ReprInt(h) == Sign(h) \o Digits(Abs(h) \div 100)

Pad2(n) == IF n < 10 THEN "0" \o Digits(n) ELSE Digits(n)

-----------------------------------------------------------------------------
(* Dates and pandas.date_range *)

Date(y, m, d) == [y |-> y, m |-> m, d |-> d]

IsLeap(y) == (y % 4 = 0 /\ y % 100 # 0) \/ y % 400 = 0

DaysInMonth(y, m) ==
  IF m = 2 THEN (IF IsLeap(y) THEN 29 ELSE 28)
  ELSE IF m \in {4, 6, 9, 11} THEN 30 ELSE 31

MonthEnd(y, m) == Date(y, m, DaysInMonth(y, m))

NextMonthEnd(dt) ==
  IF dt.m = 12 THEN MonthEnd(dt.y + 1, 1) ELSE MonthEnd(dt.y, dt.m + 1)

RECURSIVE MonthEnds(_, _)
\* periods month ends, the first one being first
MonthEnds(first, periods) ==
  IF periods = 0 THEN <<>>
  ELSE <<first>> \o MonthEnds(NextMonthEnd(first), periods - 1)

\* pd.date_range(start=..., periods=..., freq='M'): the month ends on or after start
date_range(start, periods) == MonthEnds(MonthEnd(start.y, start.m), periods)

\* dt1 is an earlier day than dt2
Earlier(dt1, dt2) ==
  \/ dt1.y < dt2.y
  \/ dt1.y = dt2.y /\ dt1.m < dt2.m
  \/ dt1.y = dt2.y /\ dt1.m = dt2.m /\ dt1.d < dt2.d

Increasing(ds) == \A i \in 1..(Len(ds) - 1) : Earlier(ds[i], ds[i + 1])

\* a Timestamp at midnight as to_csv writes it
IsoDate(dt) == Digits(dt.y) \o "-" \o Pad2(dt.m) \o "-" \o Pad2(dt.d)

-----------------------------------------------------------------------------
(* The data of the script.  A DataFrame is the sequence of its columns in    *)
(* order, each with its name, the dtype pandas infers for it and its cells. *)
(* A dict is the sequence of its items in insertion order.                  *)

Column(name, dtype, cells) == [name |-> name, dtype |-> dtype, cells |-> cells]

Columns(df) == [i \in 1..Len(df) |-> df[i].name]

HasColumn(df, name) == \E i \in 1..Len(df) : df[i].name = name

\* df[name]
Series(df, name) == df[CHOOSE i \in 1..Len(df) : df[i].name = name].cells

NumRows(df) == IF df = <<>> THEN 0 ELSE Len(df[1].cells)

Metric(name, value, change, period) ==
  [name |-> name, value |-> value, change |-> change, period |-> period]

key_metrics_literal ==
  << Metric("Steel Price",           34217,   93, "vs Q4 2024"),
     Metric("Oil Price (WTI)",        7845, -120, "vs Q4 2024"),
     Metric("Freight Rate Index",    11247, -500, "Semi-Annual"),
     Metric("Grinding Media Index",  12133,   40, "vs 2024"),
     Metric("Equipment Index",       14652,  901, "vs 2024"),
     Metric("Supply Chain Pressure",  9872,  -81, "vs Q4 2024") >>

dates == date_range(Date(2024, 10, 1), 6)

time_series_literal ==
  << Column("Date",               "datetime64", dates),
     Column("Steel Price",        "int64",   <<33000, 33500, 33800, 34000, 34200, 34500>>),
     Column("Oil Price",          "int64",   <<8000, 7800, 7700, 7600, 7800, 7900>>),
     Column("Supply Chain Index", "float64", <<10000, 9950, 9900, 9880, 9870, 9850>>),
     Column("Freight Rate",       "float64", <<11500, 11400, 11300, 11250, 11240, 11230>>),
     Column("Grinding Media",     "float64", <<12000, 12050, 12080, 12100, 12120, 12140>>) >>

pmi_data_literal ==
  << Column("Country",                "object",  <<"Canada", "US", "Peru", "Chile", "China">>),
     Column("Manufacturing PMI",      "float64", <<5120, 5270, 4980, 5030, 5180>>),
     Column("Input Prices Sub-index", "float64", <<5830, 5710, 5590, 5620, 5470>>) >>

forecast_data_literal ==
  << Column("Indicator", "object",
            <<"Steel Price", "Oil Price (WTI)", "Freight Rate Index",
              "Grinding Media Index", "Equipment Index", "Supply Chain Pressure">>),
     Column("Current",            "float64", <<93, -120, -500, 40, 901, -81>>),
     Column("Q2 2025 (Forecast)", "float64", <<97, -80, -450, 45, 920, -79>>),
     Column("Q3 2025 (Forecast)", "float64", <<102, -50, -380, 52, 930, -75>>),
     Column("Trend", "object",
            <<"Increasing", "Improving", "Improving", "Slight Increase",
              "Increasing", "Improving">>) >>

\* Fault variant of create_dummy_data: the tables are module-level objects kept
\* between runs, and a finished run has popped the first metric
create_dummy_data_shared ==
  [key_metrics   |-> IF \E w \in Viewers : pc[w] = "done"
                     THEN Tail(key_metrics_literal) ELSE key_metrics_literal,
   time_series   |-> time_series_literal,
   pmi_data      |-> pmi_data_literal,
   forecast_data |-> forecast_data_literal]

\* def create_dummy_data(): no parameters, no reads of any global
create_dummy_data ==
  [key_metrics   |-> key_metrics_literal,
   time_series   |-> time_series_literal,
   pmi_data      |-> pmi_data_literal,
   forecast_data |-> forecast_data_literal]

equipment_data_literal ==
  << Column("Index", "object",
            <<"CAT Equipment", "Komatsu Equipment", "John Deere Equipment">>),
     Column("Current Value", "float64", <<14652, 13980, 14230>>),
     Column("YoY Change",    "float64", <<901, 720, 850>>) >>

-----------------------------------------------------------------------------
(* Rendering.  A rendered element is a record: the Streamlit call that made  *)
(* it (kind), the container it went to (main page or sidebar) and what it    *)
(* shows.                                                                    *)

Element(kind, body) == [kind |-> kind, container |-> "main", body |-> body]

SidebarElement(kind, body) == [kind |-> kind, container |-> "sidebar", body |-> body]

MonthName(m) ==
  << "January", "February", "March", "April", "May", "June", "July", "August",
     "September", "October", "November", "December" >>[m]

\* date.strftime('%B %d, %Y')
LongDate(dt) == MonthName(dt.m) \o " " \o Pad2(dt.d) \o ", " \o Digits(dt.y)

\* st.title, st.caption, st.write and the sidebar headers
PageHeader(today) ==
  << Element("title", "Economic Indicators Dashboard"),
     Element("caption", "Data source: Bloomberg Terminal & BLS"),
     Element("write", "Last updated: " \o LongDate(today)),
     SidebarElement("header", "Data Options"),
     SidebarElement("header", "Filters") >>

NumCols == 3

\* Fault variant of col_index: the column is taken from a 1-based index
col_index_shifted(i) == (i + 1) % NumCols

\* col_index = i % 3, i counted from 0
col_index(i) == i % NumCols

\* Fault variant of MetricCard: the numbers are shown unformatted
MetricCard_raw(i, m) ==
  [kind      |-> "metric",
   container |-> "main",
   column    |-> col_index(i),
   label     |-> m.name \o " (" \o m.period \o ")",
   value     |-> ReprFloat(m.value),
   delta     |-> ReprFloat(m.change) \o "%"]

\* the st.metric call of the i-th item (from 0) of key_metrics
MetricCard(i, m) ==
  [kind      |-> "metric",
   container |-> "main",
   column    |-> col_index(i),
   label     |-> m.name \o " (" \o m.period \o ")",
   value     |-> Fixed2(m.value),
   delta     |-> Fixed2(m.change) \o "%"]

\* the loop over enumerate(metric_list)
MetricCards(key_metrics) ==
  [i \in 1..Len(key_metrics) |-> MetricCard(i - 1, key_metrics[i])]

MetricsPanel(key_metrics) ==
  <<Element("header", "Key Metrics Summary")>> \o MetricCards(key_metrics)

\* ax1.plot(time_series['Date'], time_series[commodity], marker='o', label=commodity)
Line(time_series, commodity) ==
  [label  |-> commodity,
   marker |-> "o",
   x      |-> Series(time_series, "Date"),
   y      |-> Series(time_series, commodity)]

TrendFigure(time_series, commodities) ==
  [kind      |-> "pyplot",
   container |-> "main",
   title     |-> "6-Month Commodity Price Trends",
   legend    |-> TRUE,
   lines     |-> [i \in 1..Len(commodities) |-> Line(time_series, commodities[i])]]

\* Fault variant of TrendPanel: the else branch is lost and an empty selection
\* draws an empty chart
TrendPanel_NoWarning(time_series, commodities) ==
  << Element("header", "Commodity Price Trends (6-month)"),
     TrendFigure(time_series, commodities) >>

\* if commodities: ... else: st.warning(...)
TrendPanel(time_series, commodities) ==
  <<Element("header", "Commodity Price Trends (6-month)")>> \o
  (IF commodities # <<>>
   THEN <<TrendFigure(time_series, commodities)>>
   ELSE <<Element("warning", "Please select at least one commodity to display")>>)

\* time_series[commodity] raises KeyError for a name that is no column
TrendRaises(time_series, commodities) ==
  \E i \in 1..Len(commodities) : ~HasColumn(time_series, commodities[i])

\* ax.bar(x, height): one bar per row
Bars(df, xcol, hcol) ==
  [i \in 1..NumRows(df) |-> [x |-> Series(df, xcol)[i], height |-> Series(df, hcol)[i]]]

\* f'+{height:.1f}%'
EquipmentLabel(height) == "+" \o Fixed1(height) \o "%"

\* f'{height:.1f}'
PmiLabel(height) == Fixed1(height)

\* ax.text(centre of the bar, height + 0.1, label, va='bottom')
BarText(bar, label) == [x |-> bar.x, y |-> bar.height + 10, s |-> label]

EquipmentFigure(equipment_data) ==
  LET bars == Bars(equipment_data, "Index", "YoY Change")
  IN  [kind      |-> "pyplot",
       container |-> "main",
       title     |-> "Equipment Indices Year-over-Year Changes",
       ylabel    |-> "YoY Change (%)",
       bars      |-> bars,
       texts     |-> [i \in 1..Len(bars) |->
                        BarText(bars[i], EquipmentLabel(bars[i].height))],
       hlines    |-> <<>>]

EquipmentPanel(equipment_data) ==
  << Element("header", "Equipment Index Comparison"),
     EquipmentFigure(equipment_data) >>

\* ax3.axhline(y=50, ...)
PmiReference == 5000

\* Fault variant of PmiFigure: the bars show the headline PMI column
PmiFigure_headline(pmi_data) ==
  LET bars == Bars(pmi_data, "Country", "Manufacturing PMI")
  IN  [kind      |-> "pyplot",
       container |-> "main",
       title     |-> "Input Prices Sub-index by Country",
       ylabel    |-> "Index Value",
       bars      |-> bars,
       texts     |-> [i \in 1..Len(bars) |-> BarText(bars[i], PmiLabel(bars[i].height))],
       hlines    |-> <<PmiReference>>]

PmiFigure(pmi_data) ==
  LET bars == Bars(pmi_data, "Country", "Input Prices Sub-index")
  IN  [kind      |-> "pyplot",
       container |-> "main",
       title     |-> "Input Prices Sub-index by Country",
       ylabel    |-> "Index Value",
       bars      |-> bars,
       texts     |-> [i \in 1..Len(bars) |-> BarText(bars[i], PmiLabel(bars[i].height))],
       hlines    |-> <<PmiReference>>]

PmiChartPanel(pmi_data) ==
  << Element("header", "Manufacturing PMI - Input Prices Sub-index"),
     PmiFigure(pmi_data) >>

\* st.dataframe(df)
PmiTablePanel(pmi_data) ==
  << Element("subheader", "PMI Data Table"), Element("dataframe", pmi_data) >>

ForecastPanel(forecast_data) ==
  << Element("header", "Forecast Summary (Next 2 Quarters)"),
     Element("dataframe", forecast_data) >>

-----------------------------------------------------------------------------
(* Export: DataFrame.to_csv(index=False).encode('utf-8') *)

RECURSIVE JoinFrom(_, _, _)
JoinFrom(fields, sep, i) ==
  IF i > Len(fields) THEN ""
  ELSE IF i = Len(fields) THEN fields[i]
  ELSE fields[i] \o sep \o JoinFrom(fields, sep, i + 1)

\* sep.join(fields); the fields are bound once
Join(fields, sep) == CHOOSE text \in {JoinFrom(f, sep, 1) : f \in {fields}} : TRUE

\* the text to_csv writes for one cell of a column of the given dtype
CellText(dtype, cell) ==
  CASE dtype = "int64"      -> ReprInt(cell)
    [] dtype = "float64"    -> ReprFloat(cell)
    [] dtype = "datetime64" -> IsoDate(cell)
    [] OTHER                -> cell

CsvRow(df, r) == Join([i \in 1..Len(df) |-> CellText(df[i].dtype, df[i].cells[r])], ",")

RECURSIVE CsvRows(_, _)
CsvRows(df, r) ==
  IF r > NumRows(df) THEN "" ELSE CsvRow(df, r) \o "\n" \o CsvRows(df, r + 1)

\* Fault variant of to_csv: index=False is left out, so the row index is
\* written as a first, unnamed column
RECURSIVE CsvRowsWithIndex(_, _)
CsvRowsWithIndex(df, r) ==
  IF r > NumRows(df) THEN ""
  ELSE Digits(r - 1) \o "," \o CsvRow(df, r) \o "\n" \o CsvRowsWithIndex(df, r + 1)

to_csv_with_index(df) == "," \o Join(Columns(df), ",") \o "\n" \o CsvRowsWithIndex(df, 1)

\* to_csv(index=False): the header row, then one line per row, no index column.
\* No name and no cell of the script's tables holds a comma, a quote or a line
\* break, so minimal quoting leaves every field as it is.
to_csv(df) == Join(Columns(df), ",") \o "\n" \o CsvRows(df, 1)

\* the characters 32..95 and 97..126 of ASCII, in code order
AsciiLow == " !\"#$%&'()*+,-./0123456789:;<=>?@ABCDEFGHIJKLMNOPQRSTUVWXYZ[\\]^_"

AsciiHigh == "abcdefghijklmnopqrstuvwxyz{|}~"

CharsOf(s) == {CharAt(s, i) : i \in 1..Len(s)}

IndexIn(s, c) == CHOOSE i \in 1..Len(s) : CharAt(s, i) = c

\* the UTF-8 code of an ASCII character is its one-byte code
Utf8 ==
  [c \in CharsOf(AsciiLow) \cup CharsOf(AsciiHigh) \cup {"\n"} |->
     IF c = "\n" THEN 10
     ELSE IF c \in CharsOf(AsciiLow) THEN 31 + IndexIn(AsciiLow, c)
     ELSE 96 + IndexIn(AsciiHigh, c)]

\* str.encode('utf-8'): one byte per character.  The text is bound once, so
\* that it is computed once and not once per byte.
encode(text) ==
  CHOOSE bytes \in {[i \in 1..Len(t) |-> Utf8[CharAt(t, i)]] : t \in {text}} : TRUE

time_series_csv(time_series) == encode(to_csv(time_series))

ExportPanel(time_series) ==
  << Element("header", "Export Data"),
     [kind      |-> "download_button",
      container |-> "main",
      label     |-> "Download Time Series Data as CSV",
      data      |-> time_series_csv(time_series),
      file_name |-> "economic_indicators_timeseries.csv",
      mime      |-> "text/csv"] >>

PageFooter ==
  << SidebarElement("markdown", "---"),
     SidebarElement("caption", "Data Sources"),
     SidebarElement("caption", "Dashboard created with Streamlit") >>

-----------------------------------------------------------------------------
(* The controls of a session: what the widget calls return in one run *)

\* Fault variant of Options: an option whose name is no column of the time series
Options_typo ==
  <<"Steel Price", "Oil Price", "Supply Chain Index", "Freight Rates", "Grinding Media">>

\* st.multiselect options and default
Options ==
  <<"Steel Price", "Oil Price", "Supply Chain Index", "Freight Rate", "Grinding Media">>

DefaultSelection == <<"Steel Price", "Oil Price", "Supply Chain Index">>

\* st.selectbox options
TimePeriods == <<"Last 6 Months", "Last 12 Months", "Year to Date", "Custom">>

Range(f) == {f[i] : i \in DOMAIN f}

\* st.file_uploader returns None or the uploaded file
NoFile == "None"

Files == {"prices.xlsx", "prices.xls"}

\* datetime.date.today() of a run
Todays == {Date(2025, 3, 7), Date(2025, 4, 1)}

\* st.date_input("Start Date", datetime.date(2024, 10, 1))
DefaultStart == Date(2024, 10, 1)

\* a date the viewer picks in a date input
PickedDates == {Date(2024, 12, 31)}

\* The controls of a session.  The date inputs exist only under "Custom":
\* custom is <<start_date, end_date>> there and <<>> (both names unbound)
\* elsewhere.  today is the clock of the run.
Controls(f, p, c, sel, t) ==
  [uploaded_file |-> f, time_period |-> p, custom |-> c, commodities |-> sel, today |-> t]

\* the first run of a session: every widget returns its default
DefaultControls(t) == Controls(NoFile, TimePeriods[1], <<>>, DefaultSelection, t)

Remove(sel, x) == SelectSeq(sel, LAMBDA y : y # x)

\* What the viewers of a specification do: the files they upload, the options
\* they toggle, the dates they pick, the days on which they load the page
Widgets(files, pool, picked, todays) ==
  [files |-> files, pool |-> pool, picked |-> picked, todays |-> todays]

\* one session: both files, every option, the page loaded on either day
SessionWidgets == Widgets(Files, Range(Options), {}, Todays)

\* concurrent sessions: one file, one option, a picked date, one day
ViewerWidgets ==
  Widgets({"prices.xlsx"}, {"Grinding Media"}, PickedDates, {Date(2025, 3, 7)})

\* A rerun follows one change of one widget (or a plain refresh); the run
\* reads the clock again.
Interactions(c, w, t) ==
  LET now == [c EXCEPT !.today = t]
  IN  {now}
      \cup {[now EXCEPT !.uploaded_file = f] : f \in {NoFile} \cup w.files}
      \cup {[now EXCEPT !.time_period = p,
                        !.custom = IF p # "Custom" THEN <<>>
                                   ELSE IF c.custom # <<>> THEN c.custom
                                   ELSE <<DefaultStart, t>>] : p \in Range(TimePeriods)}
      \cup {[now EXCEPT !.custom = <<d, c.custom[2]>>] :
              d \in IF c.custom = <<>> THEN {} ELSE w.picked \cup {DefaultStart}}
      \cup {[now EXCEPT !.custom = <<c.custom[1], d>>] :
              d \in IF c.custom = <<>> THEN {} ELSE w.picked \cup {t}}
      \cup {[now EXCEPT !.commodities = Append(c.commodities, o)] :
              o \in w.pool \ Range(c.commodities)}
      \cup {[now EXCEPT !.commodities = Remove(c.commodities, o)] :
              o \in w.pool \cap Range(c.commodities)}

NoControls == DefaultControls(DefaultStart)

\* the script's globals before the assignment of line 83 or 86
NoData == [key_metrics |-> <<>>, time_series |-> <<>>, pmi_data |-> <<>>, forecast_data |-> <<>>]

NoArg == [fn |-> "none", key_metrics |-> <<>>, equipment_data |-> <<>>]

-----------------------------------------------------------------------------
(* One run of the script, in the order of the file *)

Goto(v, label) == pc' = [pc EXCEPT ![v] = label]

Render(v, elements) == out' = [out EXCEPT ![v] = out[v] \o elements]

\* a run starts: page configuration, header, the sidebar widgets (lines 8-34)
PageLoad(v, w) ==
  /\ pc[v] \in {"idle", "done", "failed"}
  /\ \E t \in w.todays :
       \E c \in IF pc[v] = "idle" THEN {DefaultControls(t)} ELSE Interactions(ctrl[v], w, t) :
         /\ ctrl' = [ctrl EXCEPT ![v] = c]
         /\ out' = [out EXCEPT ![v] = PageHeader(c.today)]
  /\ data' = [data EXCEPT ![v] = NoData]
  /\ Goto(v, "build")
  /\ UNCHANGED <<arg, result>>

\* Fault variant of Build: the uploaded sheet, which holds three metrics,
\* replaces the metrics of the dataset
Build_fromUpload(v) ==
  /\ pc[v] = "build"
  /\ IF ctrl[v].uploaded_file # NoFile
     THEN /\ Render(v, <<SidebarElement("success", "Data file uploaded successfully!")>>)
          /\ data' = [data EXCEPT ![v] =
                        [create_dummy_data EXCEPT !.key_metrics = SubSeq(@, 1, 3)]]
     ELSE /\ UNCHANGED out
          /\ data' = [data EXCEPT ![v] = create_dummy_data]
  /\ Goto(v, "metrics")
  /\ UNCHANGED <<ctrl, arg, result>>

\* lines 79-86: both branches call create_dummy_data()
Build(v) ==
  /\ pc[v] = "build"
  /\ IF ctrl[v].uploaded_file # NoFile
     THEN /\ Render(v, <<SidebarElement("success", "Data file uploaded successfully!")>>)
          /\ data' = [data EXCEPT ![v] = create_dummy_data]
     ELSE /\ UNCHANGED out
          /\ data' = [data EXCEPT ![v] = create_dummy_data]
  /\ Goto(v, "metrics")
  /\ UNCHANGED <<ctrl, arg, result>>

\* lines 92-104
Metrics(v) ==
  /\ pc[v] = "metrics"
  /\ Render(v, MetricsPanel(data[v].key_metrics))
  /\ Goto(v, "trend")
  /\ UNCHANGED <<ctrl, data, arg, result>>

\* Fault variant of Trend: the time period is wired to the chart, which shows
\* the rows of the chosen window only
InWindow(c, dt) ==
  CASE c.time_period = "Year to Date" -> dt.y = c.today.y
    [] c.time_period = "Custom"       -> ~Earlier(dt, c.custom[1]) /\ ~Earlier(c.custom[2], dt)
    [] OTHER                          -> TRUE

Windowed(df, c) ==
  LET keep == {r \in 1..NumRows(df) : InWindow(c, Series(df, "Date")[r])}
      Nth(k) == CHOOSE r \in keep : Cardinality({q \in keep : q < r}) = k - 1
  IN  [i \in 1..Len(df) |->
         Column(df[i].name, df[i].dtype, [k \in 1..Cardinality(keep) |-> df[i].cells[Nth(k)]])]

Trend_windowed(v) ==
  /\ pc[v] = "trend"
  /\ IF TrendRaises(data[v].time_series, ctrl[v].commodities)
     THEN /\ Render(v, <<Element("header", "Commodity Price Trends (6-month)"),
                         Element("exception", "KeyError")>>)
          /\ Goto(v, "failed")
     ELSE /\ Render(v, TrendPanel(Windowed(data[v].time_series, ctrl[v]),
                                  ctrl[v].commodities))
          /\ Goto(v, "equipment")
  /\ UNCHANGED <<ctrl, data, arg, result>>

\* lines 107-127; an exception ends the run where it is raised
Trend(v) ==
  /\ pc[v] = "trend"
  /\ IF TrendRaises(data[v].time_series, ctrl[v].commodities)
     THEN /\ Render(v, <<Element("header", "Commodity Price Trends (6-month)"),
                         Element("exception", "KeyError")>>)
          /\ Goto(v, "failed")
     ELSE /\ Render(v, TrendPanel(data[v].time_series, ctrl[v].commodities))
          /\ Goto(v, "equipment")
  /\ UNCHANGED <<ctrl, data, arg, result>>

\* lines 130-149
Equipment(v) ==
  /\ pc[v] = "equipment"
  /\ Render(v, EquipmentPanel(equipment_data_literal))
  /\ Goto(v, "pmi_chart")
  /\ UNCHANGED <<ctrl, data, arg, result>>

\* lines 152-166
PmiChart(v) ==
  /\ pc[v] = "pmi_chart"
  /\ Render(v, PmiChartPanel(data[v].pmi_data))
  /\ Goto(v, "pmi_table")
  /\ UNCHANGED <<ctrl, data, arg, result>>

\* lines 169-170
PmiTable(v) ==
  /\ pc[v] = "pmi_table"
  /\ Render(v, PmiTablePanel(data[v].pmi_data))
  /\ Goto(v, "forecast")
  /\ UNCHANGED <<ctrl, data, arg, result>>

\* lines 173-174
Forecast(v) ==
  /\ pc[v] = "forecast"
  /\ Render(v, ForecastPanel(data[v].forecast_data))
  /\ Goto(v, "export")
  /\ UNCHANGED <<ctrl, data, arg, result>>

\* lines 177-196; the run ends and its globals are released
Export(v) ==
  /\ pc[v] = "export"
  /\ Render(v, ExportPanel(data[v].time_series) \o PageFooter)
  /\ data' = [data EXCEPT ![v] = NoData]
  /\ Goto(v, "done")
  /\ UNCHANGED <<ctrl, arg, result>>

Script(v) ==
  \/ Build(v)
  \/ Metrics(v)
  \/ Trend(v)
  \/ Equipment(v)
  \/ PmiChart(v)
  \/ PmiTable(v)
  \/ Forecast(v)
  \/ Export(v)

Init ==
  /\ ctrl = [v \in Viewers |-> NoControls]
  /\ pc = [v \in Viewers |-> "idle"]
  /\ data = [v \in Viewers |-> NoData]
  /\ out = [v \in Viewers |-> <<>>]
  /\ arg = NoArg
  /\ result = <<>>

\* one session, every widget
Next == PageLoad("v1", SessionWidgets) \/ Script("v1")

Spec == Init /\ [][Next]_vars

\* concurrent sessions, their runs interleaved at every step
NextViewers == \E v \in Viewers : PageLoad(v, ViewerWidgets) \/ Script(v)

SpecViewers == Init /\ [][NextViewers]_vars

-----------------------------------------------------------------------------
(* The panels as functions of their input: the metrics panel on any metric  *)
(* map of up to MaxMetrics entries, the equipment chart on any table of up   *)
(* to MaxBars rows.                                                          *)

MaxMetrics == 7

MaxBars == 3

MetricName(i) ==
  IF i <= Len(key_metrics_literal) THEN key_metrics_literal[i].name
  ELSE "Metric " \o Digits(i)

\* value, change and period of a drawn entry
MetricPool == {<<7845, -120, "vs Q4 2024">>, <<34217, 93, "Semi-Annual">>}

MetricMaps ==
  UNION {{[i \in 1..n |-> Metric(MetricName(i), f[i][1], f[i][2], f[i][3])] :
            f \in [1..n -> MetricPool]} : n \in 0..MaxMetrics}

YoYPool == {901, 850, 0, -120}

EquipmentTables ==
  UNION {{<< Column("Index", "object", [i \in 1..k |-> "Brand " \o Digits(i)]),
             Column("Current Value", "float64", [i \in 1..k |-> 14652]),
             Column("YoY Change", "float64", f) >> :
            f \in [1..k -> YoYPool]} : k \in 0..MaxBars}

FnArgs ==
  {[fn |-> "MetricsPanel", key_metrics |-> m, equipment_data |-> <<>>] : m \in MetricMaps}
  \cup
  {[fn |-> "EquipmentPanel", key_metrics |-> <<>>, equipment_data |-> e] :
     e \in EquipmentTables}

ApplyMetricsPanel ==
  /\ arg.fn = "MetricsPanel"
  /\ result = <<>>
  /\ result' = MetricsPanel(arg.key_metrics)
  /\ UNCHANGED <<ctrl, pc, data, out, arg>>

ApplyEquipmentPanel ==
  /\ arg.fn = "EquipmentPanel"
  /\ result = <<>>
  /\ result' = EquipmentPanel(arg.equipment_data)
  /\ UNCHANGED <<ctrl, pc, data, out, arg>>

InitFn ==
  /\ ctrl = [v \in Viewers |-> NoControls]
  /\ pc = [v \in Viewers |-> "idle"]
  /\ data = [v \in Viewers |-> NoData]
  /\ out = [v \in Viewers |-> <<>>]
  /\ arg \in FnArgs
  /\ result = <<>>

NextFn == ApplyMetricsPanel \/ ApplyEquipmentPanel

SpecFn == InitFn /\ [][NextFn]_vars

-----------------------------------------------------------------------------
(* Reading rendered text back: used by the properties only *)

DigitChars == CharsOf("0123456789")

IsDigits(s) == Len(s) > 0 /\ \A i \in 1..Len(s) : CharAt(s, i) \in DigitChars

DigitValue(c) == CHOOSE d \in 0..9 : Digit(d) = c

RECURSIVE ParseNat(_)
ParseNat(s) ==
  IF Len(s) = 0 THEN 0
  ELSE 10 * ParseNat(SubSeq(s, 1, Len(s) - 1)) + DigitValue(CharAt(s, Len(s)))

Unsigned(s) == IF Len(s) > 0 /\ CharAt(s, 1) = "-" THEN SubSeq(s, 2, Len(s)) ELSE s

IsNegative(s) == Len(s) > 0 /\ CharAt(s, 1) = "-"

PointAt(s) == {i \in 1..Len(s) : CharAt(s, i) = "."}

\* digits only, with an optional minus sign
IsIntegerText(s) == IsDigits(Unsigned(s))

\* digits, a point, and exactly k digits, with an optional minus sign
HasDecimals(s, k) ==
  LET u == Unsigned(s)
  IN  /\ Len(u) >= k + 2
      /\ PointAt(u) = {Len(u) - k}
      /\ IsDigits(SubSeq(u, 1, Len(u) - k - 1))
      /\ IsDigits(SubSeq(u, Len(u) - k + 1, Len(u)))

IsDecimalText(s) == HasDecimals(s, 1) \/ HasDecimals(s, 2)

\* the number a decimal text denotes, in hundredths
ParseNumber(s) ==
  LET u == Unsigned(s)
      p == IF PointAt(u) = {} THEN Len(u) + 1 ELSE CHOOSE i \in PointAt(u) : TRUE
      whole == ParseNat(SubSeq(u, 1, p - 1))
      frac == SubSeq(u, p + 1, Len(u))
      hundredths == IF Len(frac) = 0 THEN 0
                    ELSE IF Len(frac) = 1 THEN 10 * ParseNat(frac)
                    ELSE ParseNat(frac)
      a == 100 * whole + hundredths
  IN  IF IsNegative(s) THEN -a ELSE a

IsIsoDate(s) ==
  /\ Len(s) = 10
  /\ CharAt(s, 5) = "-" /\ CharAt(s, 8) = "-"
  /\ IsDigits(SubSeq(s, 1, 4)) /\ IsDigits(SubSeq(s, 6, 7)) /\ IsDigits(SubSeq(s, 9, 10))

ParseIsoDate(s) ==
  Date(ParseNat(SubSeq(s, 1, 4)), ParseNat(SubSeq(s, 6, 7)), ParseNat(SubSeq(s, 9, 10)))

\* bytes.decode('utf-8') of ASCII bytes
Utf8Inverse == [b \in Range(Utf8) |-> CHOOSE c \in DOMAIN Utf8 : Utf8[c] = b]

Chr(b) == Utf8Inverse[b]

RECURSIVE DecodeRange(_, _, _)
DecodeRange(bytes, lo, hi) ==
  IF lo > hi THEN ""
  ELSE IF lo = hi THEN Chr(bytes[lo])
  ELSE LET mid == (lo + hi) \div 2
       IN  DecodeRange(bytes, lo, mid) \o DecodeRange(bytes, mid + 1, hi)

decode(bytes) == DecodeRange(bytes, 1, Len(bytes))

\* the fields of s between the occurrences of sep
Split(s, sep) ==
  LET ends == {i \in 1..Len(s) : CharAt(s, i) = sep} \cup {Len(s) + 1}
      EndOf(k) == CHOOSE i \in ends : Cardinality({j \in ends : j < i}) = k - 1
      StartOf(k) == IF k = 1 THEN 1 ELSE EndOf(k - 1) + 1
  IN  [k \in 1..Cardinality(ends) |-> SubSeq(s, StartOf(k), EndOf(k) - 1)]

\* the lines of a text whose every line ends with a line break
Lines(text) ==
  LET parts == Split(text, "\n")
  IN  IF parts[Len(parts)] = "" THEN SubSeq(parts, 1, Len(parts) - 1) ELSE parts

\* the dtype a CSV reader infers for a column of texts, dates being parsed
InferDtype(texts) ==
  IF \A i \in 1..Len(texts) : IsIntegerText(texts[i]) THEN "int64"
  ELSE IF \A i \in 1..Len(texts) : IsIntegerText(texts[i]) \/ IsDecimalText(texts[i])
       THEN "float64"
  ELSE IF \A i \in 1..Len(texts) : IsIsoDate(texts[i]) THEN "datetime64"
  ELSE "object"

ParseCell(dtype, text) ==
  CASE dtype \in {"int64", "float64"} -> ParseNumber(text)
    [] dtype = "datetime64"          -> ParseIsoDate(text)
    [] OTHER                         -> text

\* reading a CSV text as a table, the dates parsed: the first line names the
\* columns, every other line is a row
read_csv(text) ==
  LET lines  == Lines(text)
      names  == Split(lines[1], ",")
      rows   == [r \in 1..(Len(lines) - 1) |-> Split(lines[r + 1], ",")]
      texts  == [c \in 1..Len(names) |->
                   [r \in 1..Len(rows) |-> IF c <= Len(rows[r]) THEN rows[r][c] ELSE ""]]
      dtypes == [c \in 1..Len(names) |-> InferDtype(texts[c])]
  IN  [c \in 1..Len(names) |->
         Column(names[c], dtypes[c],
                [r \in 1..Len(rows) |-> ParseCell(dtypes[c], texts[c][r])])]

\* the elements of a rendering made by the given call
OfKind(elements, kind) == SelectSeq(elements, LAMBDA e : e.kind = kind)

InContainer(elements, container) == SelectSeq(elements, LAMBDA e : e.container = container)

Kinds(elements) == [i \in 1..Len(elements) |-> elements[i].kind]

-----------------------------------------------------------------------------
(* Properties *)

AfterTrend == {"equipment", "pmi_chart", "pmi_table", "forecast", "export", "done"}

TrendCharts(elements) ==
  SelectSeq(OfKind(elements, "pyplot"), LAMBDA e : e.title = "6-Month Commodity Price Trends")

\* C1: once the trend panel of a run is rendered, a non-empty selection S has
\* produced exactly one chart and no warning, the chart having one line per
\* member of S (|S| lines, labelled by the members), each line the 6 values
\* of its series over the 6 dates in date order (Steel Price being 330, 335,
\* 338, 340, 342, 345); an empty selection has produced exactly one warning
\* and no chart.  So chart and warning are never both shown nor both absent.
C1_TrendPanel ==
  \A v \in Viewers :
    pc[v] \in AfterTrend =>
      LET S      == ctrl[v].commodities
          charts == TrendCharts(out[v])
          warns  == OfKind(out[v], "warning")
      IN  /\ Len(charts) + Len(warns) = 1
          /\ S = <<>> <=> Len(warns) = 1
          /\ S # <<>> =>
               /\ Len(charts) = 1
               /\ Len(charts[1].lines) = Len(S)
               /\ {charts[1].lines[i].label : i \in 1..Len(S)} = Range(S)
               /\ Cardinality(Range(S)) = Len(S)
               /\ \A i \in 1..Len(S) :
                    LET l == charts[1].lines[i]
                    IN  /\ l.label \in Range(Options)
                        /\ Len(l.x) = 6 /\ Len(l.y) = 6
                        /\ Increasing(l.x)
                        /\ l.y = Series(time_series_literal, l.label)
                        /\ l.label = "Steel Price" =>
                             l.y = <<33000, 33500, 33800, 34000, 34200, 34500>>

\* a run that has drawn all five series, chosen in another order than offered
C1_Witness ==
  /\ pc["v1"] = "done"
  /\ ctrl["v1"].commodities =
       <<"Grinding Media", "Steel Price", "Freight Rate", "Oil Price", "Supply Chain Index">>
  /\ Len(TrendCharts(out["v1"])) = 1

\* a run with the empty selection that has shown the warning
C1_WitnessEmpty ==
  /\ pc["v1"] = "done"
  /\ ctrl["v1"].commodities = <<>>
  /\ Len(OfKind(out["v1"], "warning")) = 1

Ceil3(n) == (n + 2) \div 3

\* C2: the metrics panel of a metric map with n entries has exactly n cards,
\* the i-th card (from 0) showing the i-th entry in column i mod 3 of the
\* columns 0..2 and being the (i div 3)-th card of its column, so that the
\* tallest column holds ceil(n / 3) cards (the number of rows) and no column
\* holds more.
C2_MetricsGrid ==
  (arg.fn = "MetricsPanel" /\ result # <<>>) =>
    LET n     == Len(arg.key_metrics)
        cards == OfKind(result, "metric")
        InColumn(c) == {i \in 1..Len(cards) : cards[i].column = c}
    IN  /\ Len(cards) = n
        /\ \A i \in 1..n :
             /\ cards[i].column = (i - 1) % 3
             /\ cards[i].label =
                  arg.key_metrics[i].name \o " (" \o arg.key_metrics[i].period \o ")"
             /\ Cardinality({j \in InColumn(cards[i].column) : j < i}) = (i - 1) \div 3
        /\ \A c \in 0..2 : Cardinality(InColumn(c)) <= Ceil3(n)
        /\ Cardinality(InColumn(0)) = Ceil3(n)
        /\ \A i \in 1..Len(cards) : cards[i].column \in 0..2

\* a panel of MaxMetrics entries, whose last row is not full
C2_Witness ==
  /\ arg.fn = "MetricsPanel"
  /\ Len(arg.key_metrics) >= 7
  /\ Len(OfKind(result, "metric")) = Len(arg.key_metrics)

ExportedTable(elements) == read_csv(decode(OfKind(elements, "download_button")[1].data))

\* C3: once a run has rendered the export, the bytes of its download button
\* parse to a table with the 6 rows, the columns Date, Steel Price, Oil Price,
\* Supply Chain Index, Freight Rate, Grinding Media in this order (a header
\* row, no index column) and the cells of the time series, whatever the
\* commodity selection of the run.
C3_CsvRoundTrip ==
  \A v \in Viewers :
    pc[v] = "done" =>
      LET buttons == OfKind(out[v], "download_button")
          table   == ExportedTable(out[v])
      IN  /\ Len(buttons) = 1
          /\ buttons[1].mime = "text/csv"
          /\ NumRows(table) = 6
          /\ Columns(table) =
               <<"Date", "Steel Price", "Oil Price", "Supply Chain Index", "Freight Rate",
                 "Grinding Media">>
          /\ table = time_series_literal
          /\ Series(table, "Steel Price") = <<33000, 33500, 33800, 34000, 34200, 34500>>
          /\ Series(table, "Date")[1] = Date(2024, 10, 31)

\* an export offered by a run that drew no series at all
C3_Witness ==
  /\ pc["v1"] = "done"
  /\ ctrl["v1"].commodities = <<>>
  /\ Len(OfKind(out["v1"], "download_button")) = 1
  /\ NumRows(ExportedTable(out["v1"])) = 6

\* the controls of two runs agree but for the time period and its dates
SameButPeriod(c, d) ==
  /\ c.uploaded_file = d.uploaded_file
  /\ c.commodities = d.commodities
  /\ c.today = d.today

\* C4: two runs whose controls differ at most in the time period and, under
\* Custom, in the start and end dates have rendered the same elements at
\* every position of the script: the same metric cards, trend chart or
\* warning, equipment chart, PMI chart and table, forecast table and exported
\* bytes.
C4_PeriodHasNoEffect ==
  \A v, w \in Viewers :
    (pc[v] = pc[w] /\ SameButPeriod(ctrl[v], ctrl[w])) => out[v] = out[w]

\* two finished runs, one under Custom with a picked start date, one under the
\* default period
C4_Witness ==
  /\ pc["v1"] = "done" /\ pc["v2"] = "done"
  /\ SameButPeriod(ctrl["v1"], ctrl["v2"])
  /\ ctrl["v1"].time_period = "Custom"
  /\ ctrl["v1"].custom[1] # DefaultStart
  /\ ctrl["v2"].time_period = "Last 6 Months"
  /\ Len(OfKind(out["v1"], "download_button")) = 1

Built == {"metrics", "trend", "equipment", "pmi_chart", "pmi_table", "forecast", "export"}

\* the controls of two runs agree but for the uploaded file
SameButUpload(c, d) ==
  /\ c.time_period = d.time_period
  /\ c.custom = d.custom
  /\ c.commodities = d.commodities
  /\ c.today = d.today

\* C5: the uploaded file never reaches the dataset: any two runs that hold
\* their dataset hold the same four collections, and two runs whose controls
\* differ at most in the uploaded file have rendered the same elements on the
\* page at every position of the script; the upload shows only as the
\* sidebar's success message.
C5_UploadDiscarded ==
  \A v, w \in Viewers :
    /\ (pc[v] \in Built /\ pc[w] \in Built) => data[v] = data[w]
    /\ (pc[v] = pc[w] /\ SameButUpload(ctrl[v], ctrl[w])) =>
         InContainer(out[v], "main") = InContainer(out[w], "main")
    /\ pc[v] \in Built \cup {"done"} =>
         (Len(OfKind(out[v], "success")) = IF ctrl[v].uploaded_file = NoFile THEN 0 ELSE 1)

\* two finished runs, one with an uploaded file and one without
C5_Witness ==
  /\ pc["v1"] = "done" /\ pc["v2"] = "done"
  /\ SameButUpload(ctrl["v1"], ctrl["v2"])
  /\ ctrl["v1"].uploaded_file # NoFile
  /\ ctrl["v2"].uploaded_file = NoFile
  /\ Len(OfKind(out["v1"], "metric")) = 6

AfterMetrics == AfterTrend \cup {"trend"}

\* C6: every metric card of a run shows the label "<name> (<period>)", the
\* value with exactly two decimals and the change with its sign and exactly
\* two decimals followed by "%"; the card of Oil Price (WTI), value 78.45 and
\* change -1.2, shows "78.45" and "-1.20%".
C6_MetricCards ==
  \A v \in Viewers :
    pc[v] \in AfterMetrics =>
      LET cards == OfKind(out[v], "metric")
      IN  /\ Len(cards) = Len(key_metrics_literal)
          /\ \A i \in 1..Len(cards) :
               LET m == key_metrics_literal[i]
                   d == SubSeq(cards[i].delta, 1, Len(cards[i].delta) - 1)
               IN  /\ cards[i].label = m.name \o " (" \o m.period \o ")"
                   /\ HasDecimals(cards[i].value, 2)
                   /\ ParseNumber(cards[i].value) = m.value
                   /\ CharAt(cards[i].delta, Len(cards[i].delta)) = "%"
                   /\ HasDecimals(d, 2)
                   /\ ParseNumber(d) = m.change
                   /\ IsNegative(d) <=> m.change < 0
          /\ cards[2].label = "Oil Price (WTI) (vs Q4 2024)"
          /\ cards[2].value = "78.45"
          /\ cards[2].delta = "-1.20%"

\* a run that has rendered its six cards
C6_Witness ==
  /\ pc["v1"] = "trend"
  /\ Len(OfKind(out["v1"], "metric")) = 6
  /\ \E i \in 1..6 : OfKind(out["v1"], "metric")[i].delta = "-5.00%"

EquipmentCharts(elements) ==
  SelectSeq(OfKind(elements, "pyplot"),
            LAMBDA e : e.title = "Equipment Indices Year-over-Year Changes")

C7_ShippedLabels ==
  \A v \in Viewers :
    pc[v] \in {"pmi_chart", "pmi_table", "forecast", "export", "done"} =>
      LET fig == EquipmentCharts(out[v])[1]
      IN  [i \in 1..Len(fig.texts) |-> fig.texts[i].s] = <<"+9.0%", "+7.2%", "+8.5%">>

PmiCharts(elements) ==
  SelectSeq(OfKind(elements, "pyplot"), LAMBDA e : e.title = "Input Prices Sub-index by Country")

\* C8: once a run has rendered the PMI chart and table, the chart has one bar
\* per row of the PMI table (one per country), as high as the row's input
\* price sub-index and labelled above the bar with that value to one decimal,
\* and exactly one reference line, at 50; every bar is higher than the
\* reference line (China, 51.8 and 54.7, has the bar 54.7 labelled "54.7");
\* the table shows the same rows as they are.
C8_PmiChart ==
  \A v \in Viewers :
    pc[v] \in {"forecast", "export", "done"} =>
      LET charts    == PmiCharts(out[v])
          fig       == charts[1]
          tables    == OfKind(out[v], "dataframe")
          countries == Series(pmi_data_literal, "Country")
          prices    == Series(pmi_data_literal, "Input Prices Sub-index")
      IN  /\ Len(charts) = 1
          /\ Len(fig.bars) = 5 /\ Len(countries) = 5 /\ Cardinality(Range(countries)) = 5
          /\ Len(fig.texts) = 5
          /\ fig.hlines = <<5000>>
          /\ \A i \in 1..5 :
               /\ fig.bars[i].x = countries[i]
               /\ fig.bars[i].height = prices[i]
               /\ fig.bars[i].height > fig.hlines[1]
               /\ fig.texts[i].x = countries[i]
               /\ fig.texts[i].y > fig.bars[i].height
               /\ HasDecimals(fig.texts[i].s, 1)
               /\ ParseNumber(fig.texts[i].s) = fig.bars[i].height
          /\ fig.bars[5] = [x |-> "China", height |-> 5470]
          /\ fig.texts[5].s = "54.7"
          /\ tables[1].body = pmi_data_literal
          /\ Series(tables[1].body, "Country")[5] = "China"
          /\ Series(tables[1].body, "Manufacturing PMI")[5] = 5180
          /\ Series(tables[1].body, "Input Prices Sub-index")[5] = 5470

\* a run that has rendered the PMI chart and the PMI table
C8_Witness ==
  /\ pc["v1"] = "forecast"
  /\ Len(PmiCharts(out["v1"])) = 1
  /\ Len(OfKind(out["v1"], "dataframe")) = 1

\* the section titles of the page, in the order of the script
SectionTitles ==
  << "Key Metrics Summary", "Commodity Price Trends (6-month)", "Equipment Index Comparison",
     "Manufacturing PMI - Input Prices Sub-index", "PMI Data Table",
     "Forecast Summary (Next 2 Quarters)", "Export Data" >>

\* the sections a run has rendered when it is at the given position
SectionsDone(label) ==
  CASE label = "metrics"   -> 0
    [] label = "trend"     -> 1
    [] label = "equipment" -> 2
    [] label = "pmi_chart" -> 3
    [] label = "pmi_table" -> 4
    [] label = "forecast"  -> 5
    [] label = "export"    -> 6
    [] label = "done"      -> 7
    [] OTHER               -> 0

\* the section titles a rendering shows, in order
Sections(elements) ==
  LET titles == SelectSeq(InContainer(elements, "main"),
                          LAMBDA e : e.kind \in {"header", "subheader"})
  IN  [i \in 1..Len(titles) |-> titles[i].body]

\* what a rendering shows below its section titles, in order
PanelKinds(elements) ==
  Kinds(SelectSeq(InContainer(elements, "main"),
                  LAMBDA e : e.kind \notin {"title", "caption", "write", "header", "subheader"}))

\* the order of a run: the dataset before any panel, the sections in the order
\* of the script, each once, and no failure
RunInOrder ==
  /\ \A o \in Range(Options) : HasColumn(time_series_literal, o)
  /\ \A v \in Viewers :
       /\ pc[v] # "failed"
       /\ pc[v] \in Built => data[v] # NoData
       /\ pc[v] \in {"idle", "build"} => Sections(out[v]) = <<>> /\ PanelKinds(out[v]) = <<>>
       /\ pc[v] \in Built \cup {"done"} =>
            Sections(out[v]) = SubSeq(SectionTitles, 1, SectionsDone(pc[v]))
       /\ pc[v] = "done" =>
            PanelKinds(out[v]) =
              << "metric", "metric", "metric", "metric", "metric", "metric",
                 IF ctrl[v].commodities = <<>> THEN "warning" ELSE "pyplot",
                 "pyplot", "pyplot", "dataframe", "dataframe", "download_button" >>

\* one session whose runs, once started, are not suspended: the next step of
\* a run under way is taken.  One file, every option, one day.
RunWidgets == Widgets({"prices.xlsx"}, Range(Options), {}, {Date(2025, 3, 7)})

NextFair == PageLoad("v1", RunWidgets) \/ Script("v1")

SpecFair == Init /\ [][NextFair]_vars /\ WF_vars(Script("v1"))

\* C9: every run that starts, whatever its controls, ends, and never by a
\* failure; the dataset is built before any panel is rendered; a run at a
\* given position has rendered exactly the sections before that position, in
\* the order of the script, and a finished run has rendered the six metric
\* cards, the trend chart or the warning, the equipment chart, the PMI chart,
\* the PMI table, the forecast table and the export button, each once and in
\* this order (so the warning stops nothing); every selectable commodity is a
\* column of the time series.
C9_RunsToCompletion ==
  /\ []RunInOrder
  /\ \A v \in Viewers : (pc[v] = "build") ~> (pc[v] = "done")

\* a finished run with a file uploaded, a custom period and nothing selected
C9_Witness ==
  /\ pc["v1"] = "done"
  /\ ctrl["v1"].uploaded_file # NoFile
  /\ ctrl["v1"].time_period = "Custom"
  /\ ctrl["v1"].commodities = <<>>
  /\ Len(OfKind(out["v1"], "warning")) = 1
  /\ Len(OfKind(out["v1"], "download_button")) = 1

\* every table has its columns, all of one length, and no cell is missing
FullyPopulated(d) ==
  /\ Len(d.key_metrics) = 6
  /\ \A df \in {d.time_series, d.pmi_data, d.forecast_data} :
       /\ df # <<>>
       /\ NumRows(df) > 0
       /\ \A i \in 1..Len(df) : Len(df[i].cells) = NumRows(df)

\* C10: runs share nothing: a run that holds its dataset holds the four fully
\* populated collections of the script, the same in every run, and a run that
\* has ended holds none; two runs with the same controls have rendered the
\* same elements at every position of the script, whatever runs came before
\* them in either session and wherever the other session stands.
C10_NoSharedState ==
  \A v, w \in Viewers :
    /\ pc[v] \in Built =>
         /\ FullyPopulated(data[v])
         /\ data[v].key_metrics = key_metrics_literal
         /\ data[v].time_series = time_series_literal
         /\ data[v].pmi_data = pmi_data_literal
         /\ data[v].forecast_data = forecast_data_literal
    /\ pc[v] \notin Built => data[v] = NoData
    /\ (pc[v] = pc[w] /\ ctrl[v] = ctrl[w]) => out[v] = out[w]

\* one session has finished a run with changed controls while the other, with
\* other controls, is in the middle of its own run
C10_Witness ==
  /\ pc["v1"] = "done"
  /\ pc["v2"] = "pmi_chart"
  /\ ctrl["v1"] # ctrl["v2"]
  /\ ctrl["v1"].commodities # DefaultSelection
  /\ Len(OfKind(out["v2"], "metric")) = 6

=============================================================================
